---- MODULE Spec2Model ----
(***************************************************************************)
(* Model of compare_csv.py (CsvComparer): the numeric-equivalence engine   *)
(* are_equal_to_given_precision, the field comparer compare_fields and the *)
(* comparator compare_linelists with its csv.reader tokenizer.             *)
(*                                                                         *)
(* A Python str is a sequence of one-character strings.  A Python float is *)
(* an IEEE-754 double: its 53-bit significand is kept exactly, split into  *)
(* a 27-bit high limb and a 26-bit low limb, and float(), * and the        *)
(* comparisons round as the hardware does (round-half-to-even).  The       *)
(* literals of the model stay far from overflow and underflow, so the      *)
(* exponent is an unbounded integer.                                       *)
(***************************************************************************)
EXTENDS Integers, Sequences, FiniteSets, TLC

VARIABLES
    string0, string1,   \* arguments of are_equal_to_given_precision
    eq_result,          \* its outcome: "True", "False", "TypeError", or "pending"
    fields0, fields1,   \* arguments of compare_fields
    fields_result,      \* its outcome (a message, NoneValue, an exception) or Pending
    list0, list1,       \* arguments of compare_linelists
    lines_result,       \* its outcome or Pending
    plain_fields,       \* the fields a quoted line pair was built from
    quoted              \* the indices of plain_fields wrapped in double quotes

vars == <<string0, string1, eq_result, fields0, fields1, fields_result,
          list0, list1, lines_result, plain_fields, quoted>>

(***************************************************************************)
(* Bounds of the model.                                                    *)
(***************************************************************************)
MaxIntDigits == 2
MaxFracDigits == 2
MaxFields == 2
MaxLines == 2
MaxLineLen == 2

(***************************************************************************)
(* Characters.                                                             *)
(***************************************************************************)
Digits == <<"0", "1", "2", "3", "4", "5", "6", "7", "8", "9">>

DigitChars == {Digits[i] : i \in 1..10}

DigitVal(c) == (CHOOSE i \in 1..10 : Digits[i] = c) - 1

SignChars == {"-", "+"}

ExpChars == {"e", "E"}

\* the characters str.strip() / float() treat as white space
SpaceChars == {" ", "\t", "\n", "\r"}

Max(a, b) == IF a >= b THEN a ELSE b

Min(a, b) == IF a <= b THEN a ELSE b

Abs(a) == IF a >= 0 THEN a ELSE -a

RECURSIVE Pow10(_)
Pow10(n) == IF n = 0 THEN 1 ELSE 10 * Pow10(n - 1)

\* the length of the run of ASCII digits of s that starts at index i
RECURSIVE RunLen(_, _)
RunLen(s, i) ==
    IF i <= Len(s) /\ s[i] \in DigitChars THEN 1 + RunLen(s, i + 1) ELSE 0

\* int(d) of a string of ASCII digits (leading zeros allowed)
RECURSIVE DigitsToInt(_)
DigitsToInt(d) ==
    IF d = <<>> THEN 0
    ELSE 10 * DigitsToInt(SubSeq(d, 1, Len(d) - 1)) + DigitVal(d[Len(d)])

\* str(n) of a non-negative int
RECURSIVE IntToStr(_)
IntToStr(n) ==
    IF n < 10 THEN <<Digits[n + 1]>>
    ELSE IntToStr(n \div 10) \o <<Digits[(n % 10) + 1]>>

\* "0" * n
Zeros(n) == [i \in 1..n |-> "0"]

(***************************************************************************)
(* Lexical structure of a decimal literal: optional sign, integer digits,  *)
(* optional point, fraction digits, optional exponent.  Both the regular   *)
(* expression of sig_figs / extract_mantissa_digits and float() scan the   *)
(* string this way, one character at a time, and differ only in which      *)
(* shapes they accept.  at is the part of the literal the scan is in.      *)
(***************************************************************************)
LexStart ==
    [at |-> "sign", neg |-> FALSE, ip |-> <<>>, dot |-> FALSE, fp |-> <<>>,
     hasE |-> FALSE, eneg |-> FALSE, edigits |-> <<>>]

LexChar(L, c) ==
    CASE L.at = "sign" /\ c \in SignChars ->
            [L EXCEPT !.at = "int", !.neg = (c = "-")]
      [] L.at \in {"sign", "int"} /\ c \in DigitChars ->
            [L EXCEPT !.at = "int", !.ip = Append(@, c)]
      [] L.at \in {"sign", "int"} /\ c = "." ->
            [L EXCEPT !.at = "frac", !.dot = TRUE]
      [] L.at = "frac" /\ c \in DigitChars ->
            [L EXCEPT !.fp = Append(@, c)]
      [] L.at \in {"sign", "int", "frac"} /\ c \in ExpChars ->
            [L EXCEPT !.at = "expsign", !.hasE = TRUE]
      [] L.at = "expsign" /\ c \in SignChars ->
            [L EXCEPT !.at = "exp", !.eneg = (c = "-")]
      [] L.at \in {"expsign", "exp"} /\ c \in DigitChars ->
            [L EXCEPT !.at = "exp", !.edigits = Append(@, c)]
      [] OTHER -> [L EXCEPT !.at = "bad"]

RECURSIVE LexFrom(_, _, _)
LexFrom(L, s, i) ==
    IF i > Len(s) THEN L ELSE LexFrom(LexChar(L, s[i]), s, i + 1)

Lex(s) == LexFrom(LexStart, s, 1)

\* the scan reached the end of the string, and an exponent has its digits
LexComplete(L) == L.at # "bad" /\ (L.hasE => L.edigits # <<>>)

\* the pattern's ([0-9]*)\.?([0-9]+): a digit after the point when there is
\* one, a digit at all when there is none
PatternShape(L) == LexComplete(L) /\ (IF L.dot THEN L.fp # <<>> ELSE L.ip # <<>>)

\* float()'s mantissa: at least one digit, before or after the point
FloatShape(L) == LexComplete(L) /\ (L.ip # <<>> \/ L.fp # <<>>)

\* a string without the final newline that "$" lets pass
DropFinalNewline(s) ==
    IF s # <<>> /\ s[Len(s)] = "\n" THEN SubSeq(s, 1, Len(s) - 1) ELSE s

MatchOf(L) ==
    IF PatternShape(L) THEN [matched |-> TRUE, g1 |-> L.ip, g2 |-> L.fp]
    ELSE [matched |-> FALSE, g1 |-> <<>>, g2 |-> <<>>]

\* re.match(r"^[-+]?([0-9]*)\.?([0-9]+)([eE][-+]?[0-9]+)?$", literal): the
\* groups 1 and 2, or no match.  "$" also matches before a final newline.
\* Without a point the greedy group 1 gives its last digit back to group 2,
\* so the two groups together are the whole digit run either way.
ReMatch(literal) == MatchOf(Lex(DropFinalNewline(literal)))

\* extract_mantissa_digits: the digit string, or <<"None">>
NoneValue == <<"<None>">>

GroupsJoined(m) == IF ~m.matched THEN NoneValue ELSE m.g1 \o m.g2

extract_mantissa_digits(literal) == GroupsJoined(ReMatch(literal))

\* sig_figs: -1 when the pattern does not match (no exception is raised)
GroupsLength(m) == IF ~m.matched THEN -1 ELSE Len(m.g1) + Len(m.g2)

sig_figs(literal) == GroupsLength(ReMatch(literal))

(***************************************************************************)
(* IEEE-754 doubles.  A finite non-zero double is (hi * 2^26 + lo) * 2^e   *)
(* with 2^26 <= hi < 2^27 and 0 <= lo < 2^26: a normalised 53-bit          *)
(* significand.  k is "fin", "zero", "inf" or "nan"; neg is the sign bit.  *)
(***************************************************************************)
LimbBase == 2^26

HiTop == 2^27

Double(k, neg, e, hi, lo) == [k |-> k, neg |-> neg, e |-> e, hi |-> hi, lo |-> lo]

FZero(neg) == Double("zero", neg, 0, 0, 0)

FInf(neg) == Double("inf", neg, 0, 0, 0)

FNaN(neg) == Double("nan", neg, 0, 0, 0)

\* a significand that rounding carried up to 2^53 is renormalised
Carry(neg, e, hi, lo) ==
    IF lo < LimbBase THEN Double("fin", neg, e, hi, lo)
    ELSE IF hi + 1 < HiTop THEN Double("fin", neg, e, hi + 1, 0)
    ELSE Double("fin", neg, e + 1, LimbBase, 0)

\* b more bits of the long division r / d
DivChunk(r, d, b) == [q |-> (r * 2^b) \div d, r |-> (r * 2^b) % d]

\* floor(r * 2^26 / d) and the remainder, for r < 2 * d
Div26(r, d) ==
    LET c1 == DivChunk(r, d, 7)
        c2 == DivChunk(c1.r, d, 7)
        c3 == DivChunk(c2.r, d, 6)
        c4 == DivChunk(c3.r, d, 6)
    IN  [q |-> ((c1.q * 2^7 + c2.q) * 2^6 + c3.q) * 2^6 + c4.q, r |-> c4.r]

\* num / den = (a / d) * 2^t with d <= a < 2 * d
RECURSIVE Scale2(_, _, _)
Scale2(num, den, t) ==
    IF num < den THEN Scale2(2 * num, den, t - 1)
    ELSE IF num >= 2 * den THEN Scale2(num, 2 * den, t + 1)
    ELSE [a |-> num, d |-> den, t |-> t]

\* round to nearest, ties to even: twice the dropped part against the whole
RoundsUp(twice, whole, q) == twice > whole \/ (twice = whole /\ q % 2 = 1)

RoundLow(neg, e, d, hi, l) ==
    Carry(neg, e, hi, IF RoundsUp(2 * l.r, d, l.q) THEN l.q + 1 ELSE l.q)

RoundHigh(neg, s, h) == RoundLow(neg, s.t - 52, s.d, h.q, Div26(h.r, s.d))

RoundScaled(neg, s) == RoundHigh(neg, s, Div26(s.a, s.d))

\* the double nearest to num / den (num, den > 0), ties to even
FromRatio(neg, num, den) == RoundScaled(neg, Scale2(num, den, 0))

\* the bits by which a product of the high limb exceeds 27 bits
ShiftOf(phi) ==
    IF phi >= 8 * HiTop THEN 4
    ELSE IF phi >= 4 * HiTop THEN 3
    ELSE IF phi >= 2 * HiTop THEN 2
    ELSE IF phi >= HiTop THEN 1 ELSE 0

MulRound(neg, e, qhi, qlo, drop, unit) ==
    Carry(neg, e, qhi, IF RoundsUp(2 * drop, unit, qlo) THEN qlo + 1 ELSE qlo)

MulShift(neg, e, phi, plo, unit) ==
    MulRound(neg, e, phi \div unit,
             plo \div unit + (phi % unit) * (LimbBase \div unit), plo % unit, unit)

MulLimbs(neg, e, phi, plo) ==
    MulShift(neg, e + ShiftOf(phi), phi, plo, 2^ShiftOf(phi))

\* x * c for a small positive integer c (9 or 10), rounded to nearest even
FMul(x, c) ==
    IF x.k # "fin" THEN x
    ELSE MulLimbs(x.neg, x.e, x.hi * c + (x.lo * c) \div LimbBase,
                  (x.lo * c) % LimbBase)

\* abs(x)
FAbs(x) == [x EXCEPT !.neg = FALSE]

\* math.copysign(x, y)
CopySign(x, y) == [x EXCEPT !.neg = y.neg]

\* a > b for finite non-zero doubles of the same sign, by magnitude
MagGreater(a, b) ==
    \/ a.e > b.e
    \/ a.e = b.e /\ a.hi > b.hi
    \/ a.e = b.e /\ a.hi = b.hi /\ a.lo > b.lo

MagEqual(a, b) == a.e = b.e /\ a.hi = b.hi /\ a.lo = b.lo

\* x == y on floats: NaN equals nothing, -0.0 equals 0.0
FEq(x, y) ==
    IF x.k = "nan" \/ y.k = "nan" THEN FALSE
    ELSE IF x.k = "zero" \/ y.k = "zero" THEN x.k = y.k
    ELSE x.neg = y.neg /\ x.k = y.k /\ (x.k = "fin" => MagEqual(x, y))

\* x > y on non-negative floats (every comparison with NaN is False)
FGreaterPos(x, y) ==
    IF x.k = "nan" \/ y.k = "nan" THEN FALSE
    ELSE IF x.k = "zero" THEN FALSE
    ELSE IF y.k = "zero" THEN TRUE
    ELSE IF x.k = "inf" THEN y.k # "inf"
    ELSE IF y.k = "inf" THEN FALSE
    ELSE MagGreater(x, y)

\* x >= y on non-negative floats
FGePos(x, y) == FGreaterPos(x, y) \/ FEq(x, y)

(***************************************************************************)
(* float(s): Python's str -> float, for strings over ASCII digits, signs,  *)
(* ".", "e"/"E", white space and letters: white space is stripped, then an *)
(* optional sign and "nan", "inf", "infinity" (any case) or a decimal      *)
(* number with at least one digit in its mantissa.  k = "ValueError" is    *)
(* the exception.                                                          *)
(***************************************************************************)
RECURSIVE LStrip(_)
LStrip(s) == IF s # <<>> /\ s[1] \in SpaceChars THEN LStrip(Tail(s)) ELSE s

RECURSIVE RStrip(_)
RStrip(s) ==
    IF s # <<>> /\ s[Len(s)] \in SpaceChars
    THEN RStrip(SubSeq(s, 1, Len(s) - 1)) ELSE s

Strip(s) == RStrip(LStrip(s))

Lower(c) ==
    CASE c = "N" -> "n" [] c = "A" -> "a" [] c = "I" -> "i" [] c = "F" -> "f"
      [] c = "T" -> "t" [] c = "Y" -> "y" [] OTHER -> c

LowerStr(s) == [i \in 1..Len(s) |-> Lower(s[i])]

ValueError == Double("ValueError", FALSE, 0, 0, 0)

\* the exact value of a lexed decimal: the integer m and the power x of ten
\* with value = m * 10^x
Mantissa(L) == DigitsToInt(L.ip \o L.fp)

Exponent10(L) ==
    (IF L.eneg THEN -DigitsToInt(L.edigits) ELSE DigitsToInt(L.edigits)) - Len(L.fp)

\* the double of a lexed decimal number m * 10^x
FloatOfDecimal(neg, m, x) ==
    IF m = 0 THEN FZero(neg)
    ELSE IF x >= 0 THEN FromRatio(neg, m * Pow10(x), 1)
    ELSE FromRatio(neg, m, Pow10(-x))

FloatOfLex(L) ==
    IF ~FloatShape(L) THEN ValueError
    ELSE FloatOfDecimal(L.neg, Mantissa(L), Exponent10(L))

\* "nan", "inf" and "infinity" after the sign, in any case
FloatOfWord(neg, word, t) ==
    IF word = <<"n", "a", "n">> THEN FNaN(neg)
    ELSE IF word \in {<<"i", "n", "f">>, <<"i", "n", "f", "i", "n", "i", "t", "y">>}
    THEN FInf(neg)
    ELSE FloatOfLex(Lex(t))

FloatOfStripped(t) ==
    IF t # <<>> /\ t[1] \in SignChars
    THEN FloatOfWord(t[1] = "-", LowerStr(Tail(t)), t)
    ELSE FloatOfWord(FALSE, LowerStr(t), t)

PyFloat(s) == FloatOfStripped(Strip(s))

(***************************************************************************)
(* are_equal_to_given_precision                                            *)
(***************************************************************************)
\* the comparison with the sign bit taken into account, under which -0.0 and
\* 0.0 differ
NumericallyEqualBitwise(f0, f1) == f0 = f1

\* floats[0] == floats[1]
NumericallyEqual(f0, f1) == FEq(f0, f1)

\* math.copysign(floats[0], floats[1]) != floats[0]
OppositeSigns(f0, f1) == ~FEq(CopySign(f0, f1), f0)

\* positives[0] >= positives[1] * 10 or positives[1] >= positives[0] * 10
DifferentMagnitude(p0, p1) ==
    FGePos(p0, FMul(p1, 10)) \/ FGePos(p1, FMul(p0, 10))

\* no tolerance for the literal with fewer digits
MaxDiffExact(sf0, sf1) == 1

\* 10**(max(sig_figs) - min(sig_figs))
MaxDiff(sf0, sf1) == Pow10(Max(sf0, sf1) - Min(sf0, sf1))

\* int(digits[i] + "0" * (max(sig_figs) - sig_figs[i]))
PaddedInt(digits, sf, sfmax) == DigitsToInt(digits \o Zeros(sfmax - sf))

\* the first straddle correction: ints[0] after it
Straddle0(i0, i1, p0, p1) ==
    IF i0 * 9 < i1 /\ FGePos(FMul(p0, 9), p1) THEN i0 * 10 ELSE i0

\* the second straddle correction, which reads the corrected ints[0]
Straddle1(i0, i1, p0, p1) ==
    IF i1 * 9 < i0 /\ FGePos(FMul(p1, 9), p0) THEN i1 * 10 ELSE i1

\* line 84: the verdict on the corrected integer mantissas
Verdict(b0, b1, max_diff) == IF Abs(b0 - b1) < max_diff THEN "True" ELSE "False"

\* lines 81-84, ints[0] being corrected already
CompareCorrected(b0, a1, max_diff, p0, p1) ==
    Verdict(b0, Straddle1(b0, a1, p0, p1), max_diff)

\* lines 67-84: padding, max_diff, the corrections and the verdict
CompareDigits(d0, d1, sf0, sf1, p0, p1) ==
    IF d0 = NoneValue \/ d1 = NoneValue THEN "TypeError"
    ELSE CompareCorrected(
             Straddle0(PaddedInt(d0, sf0, Max(sf0, sf1)),
                       PaddedInt(d1, sf1, Max(sf0, sf1)), p0, p1),
             PaddedInt(d1, sf1, Max(sf0, sf1)), MaxDiff(sf0, sf1), p0, p1)

\* lines 60-84
CompareMagnitudes(s0, s1, p0, p1) ==
    IF DifferentMagnitude(p0, p1) THEN "False"
    ELSE CompareDigits(extract_mantissa_digits(s0), extract_mantissa_digits(s1),
                       sig_figs(s0), sig_figs(s1), p0, p1)

\* lines 46-84, both calls of float() made (sig_figs raises nothing)
CompareFloats(s0, s1, f0, f1) ==
    IF f0.k = "ValueError" \/ f1.k = "ValueError" THEN "False"
    ELSE IF NumericallyEqual(f0, f1) THEN "True"
    ELSE IF OppositeSigns(f0, f1) THEN "False"
    ELSE CompareMagnitudes(s0, s1, FAbs(f0), FAbs(f1))

are_equal_to_given_precision(s0, s1) ==
    IF s0 = s1 THEN "True" ELSE CompareFloats(s0, s1, PyFloat(s0), PyFloat(s1))

(***************************************************************************)
(* Outcomes.  A returned message is the formatted text, a sequence of      *)
(* strings; None and the exceptions that leave a call are marked values    *)
(* that no message equals.                                                 *)
(***************************************************************************)
TypeError == <<"<TypeError>">>

IndexError == <<"<IndexError>">>

CsvError == <<"<csv.Error>">>

Exceptions == {TypeError, IndexError, CsvError}

\* "Lengths differ ({}, {})".format(len(fields0), len(fields1))
LengthsDiffer(n0, n1) ==
    <<"Lengths differ (">> \o IntToStr(n0) \o <<", ">> \o IntToStr(n1) \o <<")">>

\* "field {} differs ({}, {})".format(i+1, fields0[i], fields1[i]); i is 1-based here
FieldDiffers(i, v0, v1) ==
    <<"field ">> \o IntToStr(i) \o <<" differs (">> \o v0 \o <<", ">> \o v1 \o <<")">>

\* "Unequal numbers of lines ({}, {})".format(len(list0), len(list1))
UnequalLines(n0, n1) ==
    <<"Unequal numbers of lines (">> \o IntToStr(n0) \o <<", ">> \o IntToStr(n1) \o <<")">>

\* "On line {}: ".format(line+1) + result; k is 1-based here
OnLine(k, msg) == <<"On line ">> \o IntToStr(k) \o <<": ">> \o msg

(***************************************************************************)
(* compare_fields                                                          *)
(***************************************************************************)
\* the loop over range(len(fields0)) from index i (1-based) on; r is the
\* outcome of are_equal_to_given_precision on pair i
RECURSIVE CompareFrom(_, _, _)
FieldOutcome(f0, f1, i, r) ==
    IF r = "TypeError" THEN TypeError
    ELSE IF r = "False" THEN FieldDiffers(i, f0[i], f1[i])
    ELSE CompareFrom(f0, f1, i + 1)

CompareFrom(f0, f1, i) ==
    IF i > Len(f0) THEN NoneValue
    ELSE FieldOutcome(f0, f1, i, are_equal_to_given_precision(f0[i], f1[i]))

compare_fields(f0, f1) ==
    IF Len(f0) # Len(f1) THEN LengthsDiffer(Len(f0), Len(f1))
    ELSE CompareFrom(f0, f1, 1)

(***************************************************************************)
(* csv.reader(line_list, delimiter=separator, skipinitialspace=True): the  *)
(* reader's character automaton with the default dialect otherwise         *)
(* (quotechar '"', doublequote, no escapechar, not strict).                *)
(***************************************************************************)
Separator == "\t"

QuoteChar == "\""

EOL == "<EOL>"

NewlineChars == {"\n", "\r"}

Parser(state, field, fields, failed) ==
    [state |-> state, field |-> field, fields |-> fields, failed |-> failed]

\* parse_reset
ParseReset == Parser("START_RECORD", <<>>, <<>>, FALSE)

\* parse_save_field
SaveField(p, state) == Parser(state, <<>>, Append(p.fields, p.field), FALSE)

\* parse_add_char
AddChar(p, c, state) == Parser(state, Append(p.field, c), p.fields, FALSE)

AfterLine(c) == IF c = EOL THEN "START_RECORD" ELSE "EAT_CRNL"

\* a reader that does not take the quote character as opening a quoted field
StartFieldNoQuoting(p, c) ==
    IF c \in NewlineChars \/ c = EOL THEN SaveField(p, AfterLine(c))
    ELSE IF c = " " THEN [p EXCEPT !.state = "START_FIELD"]
    ELSE IF c = Separator THEN SaveField(p, "START_FIELD")
    ELSE AddChar(p, c, "IN_FIELD")

\* the START_FIELD case of parse_process_char
StartField(p, c) ==
    IF c \in NewlineChars \/ c = EOL THEN SaveField(p, AfterLine(c))
    ELSE IF c = QuoteChar THEN [p EXCEPT !.state = "IN_QUOTED_FIELD"]
    ELSE IF c = " " THEN [p EXCEPT !.state = "START_FIELD"]
    ELSE IF c = Separator THEN SaveField(p, "START_FIELD")
    ELSE AddChar(p, c, "IN_FIELD")

\* parse_process_char
ProcessChar(p, c) ==
    CASE p.state = "START_RECORD" ->
            IF c = EOL THEN p
            ELSE IF c \in NewlineChars THEN [p EXCEPT !.state = "EAT_CRNL"]
            ELSE StartField(p, c)
      [] p.state = "START_FIELD" -> StartField(p, c)
      [] p.state = "IN_FIELD" ->
            IF c \in NewlineChars \/ c = EOL THEN SaveField(p, AfterLine(c))
            ELSE IF c = Separator THEN SaveField(p, "START_FIELD")
            ELSE AddChar(p, c, "IN_FIELD")
      [] p.state = "IN_QUOTED_FIELD" ->
            IF c = EOL THEN p
            ELSE IF c = QuoteChar THEN [p EXCEPT !.state = "QUOTE_IN_QUOTED_FIELD"]
            ELSE AddChar(p, c, "IN_QUOTED_FIELD")
      [] p.state = "QUOTE_IN_QUOTED_FIELD" ->
            IF c = QuoteChar THEN AddChar(p, c, "IN_QUOTED_FIELD")
            ELSE IF c = Separator THEN SaveField(p, "START_FIELD")
            ELSE IF c \in NewlineChars \/ c = EOL THEN SaveField(p, AfterLine(c))
            ELSE AddChar(p, c, "IN_FIELD")
      [] p.state = "EAT_CRNL" ->
            IF c \in NewlineChars THEN p
            ELSE IF c = EOL THEN [p EXCEPT !.state = "START_RECORD"]
            ELSE [p EXCEPT !.failed = TRUE]

\* the characters of one line from index i on, then the end-of-line mark
RECURSIVE ProcessLine(_, _, _)
ProcessLine(p, line, i) ==
    IF p.failed THEN p
    ELSE IF i > Len(line) THEN ProcessChar(p, EOL)
    ELSE ProcessLine(ProcessChar(p, line[i]), line, i + 1)

\* "for row in reader": the rows read from lines[i..], p being the parser in
\* the middle of a record (or freshly reset) and q the parser after line i;
\* failed when the reader raises csv.Error
RECURSIVE ReadRows(_, _, _, _)
AfterRow(lines, i, q, rows) ==
    IF q.failed THEN [failed |-> TRUE, rows |-> rows]
    ELSE IF q.state = "START_RECORD"
    THEN ReadRows(lines, i + 1, ParseReset, Append(rows, q.fields))
    ELSE ReadRows(lines, i + 1, q, rows)

ReadRows(lines, i, p, rows) ==
    IF i > Len(lines)
    THEN IF p.state # "START_RECORD" /\ (p.field # <<>> \/ p.state = "IN_QUOTED_FIELD")
         THEN [failed |-> FALSE, rows |-> Append(rows, Append(p.fields, p.field))]
         ELSE [failed |-> FALSE, rows |-> rows]
    ELSE AfterRow(lines, i, ProcessLine(p, lines[i], 1), rows)

CsvReader(lines) == ReadRows(lines, 1, ParseReset, <<>>)

(***************************************************************************)
(* compare_linelists                                                       *)
(***************************************************************************)
\* the loop over range(len(fields[0])) from row index k (1-based) on; result
\* is the outcome of compare_fields on row pair k
RECURSIVE CompareRowsFrom(_, _, _)
RowOutcome(rows0, rows1, k, result) ==
    IF result \in Exceptions THEN result
    ELSE IF result # NoneValue THEN OnLine(k, result)
    ELSE CompareRowsFrom(rows0, rows1, k + 1)

CompareRowsFrom(rows0, rows1, k) ==
    IF k > Len(rows0) THEN NoneValue
    ELSE IF k > Len(rows1) THEN IndexError
    ELSE RowOutcome(rows0, rows1, k, compare_fields(rows0[k], rows1[k]))

\* lines 134-149, both lists read
CompareRead(read0, read1) ==
    IF read0.failed \/ read1.failed THEN CsvError
    ELSE CompareRowsFrom(read0.rows, read1.rows, 1)

compare_linelists(l0, l1) ==
    IF Len(l0) # Len(l1) THEN UnequalLines(Len(l0), Len(l1))
    ELSE CompareRead(CsvReader(l0), CsvReader(l1))

(***************************************************************************)
(* The strings the equivalence engine is called with: every signed decimal *)
(* mantissa over DigitSet within the digit bounds (with and without a      *)
(* point, including the shapes "", ".", "3." that are no literal), and the *)
(* literals of the tests and the specification's examples.                 *)
(***************************************************************************)
DigitSet == {"0", "3"}

DigitSeqs(n) == UNION {[1..k -> DigitSet] : k \in 0..n}

Mantissas ==
    {ip \o fp : ip \in DigitSeqs(MaxIntDigits),
                fp \in {<<>>} \cup {<<".">> \o f : f \in DigitSeqs(MaxFracDigits)}}

ExtraStrings ==
    { <<"3", ".", "5">>, <<"3", ".", "5", "0", "0">>, <<"3", ".", "0", "4">>,
      <<"3", ".", "1">>, <<"5">>, <<"-", "5">>, <<"1">>, <<"1", "5">>,
      <<"-", "1", "0">>, <<"-", "1", "0", ".", "0", "0", "0", "0", "0">>,
      <<"-", "1", "1", ".", "0", "0", "0", "0", "0">>,
      <<"1", "0", "0">>, <<"1", "0", "0", ".", "5">>, <<"1", "0", "2">>,
      <<"9", ".", "5">>, <<"1", "e", "1">>, <<"3", "E", "0">>, <<"3", "0", "e", "-", "1">>,
      <<"+", "3">>, <<"3", "e">>,
      <<"9", ".", "9", "9", "5", "2", "e", "-", "2">>, <<"1", ".", "0", "0", "e", "-", "1">>,
      <<"1", "2">>, <<"1", ".", "2", "5">>,
      <<"1", ".">>, <<"1", ".", "5">>, <<" ", "3">>, <<"3", "\n">>,
      <<"n", "a", "n">>, <<"N", "a", "N">>, <<"i", "n", "f">>, <<"-", "i", "n", "f">>,
      <<"o", "n", "e">>, <<"t", "w", "o">> }

Strings == Mantissas \cup {<<"-">> \o m : m \in Mantissas} \cup ExtraStrings

(***************************************************************************)
(* The inputs of compare_fields: lists of at most MaxFields fields.        *)
(***************************************************************************)
FieldStrings ==
    { <<"o", "n", "e">>, <<"t", "w", "o">>, <<"3">>, <<"3", ".", "0">>,
      <<"3", ".", "5">>, <<"3", ".", "1">>, <<"1", ".">>, <<"1", ".", "5">> }

FieldLists == UNION {[1..n -> FieldStrings] : n \in 0..MaxFields}

(***************************************************************************)
(* The inputs of compare_linelists: lists of at most MaxLines lines of at  *)
(* most MaxLineLen characters, and pairs of one-line lists made of the     *)
(* same fields, some of them wrapped in double quotes in the second.       *)
(***************************************************************************)
LineChars == {"3", ".", QuoteChar, Separator}

Lines == UNION {[1..n -> LineChars] : n \in 0..MaxLineLen}

LineLists == UNION {[1..n -> Lines] : n \in 0..MaxLines}

PlainTexts ==
    { <<>>, <<"o", "n", "e">>, <<"3">>, <<"3", ".", "0">>, <<" ", "3">>,
      <<" ", "o", "n", "e">>, <<"a", " ", "b">> }

PlainLists == UNION {[1..n -> PlainTexts] : n \in 1..MaxFields}

\* separator.join(fields), the fields whose index is in q wrapped in quotes
RECURSIVE JoinQuoted(_, _, _)
JoinQuoted(fs, q, i) ==
    IF i > Len(fs) THEN <<>>
    ELSE (IF i > 1 THEN <<Separator>> ELSE <<>>)
         \o (IF i \in q THEN <<QuoteChar>> \o fs[i] \o <<QuoteChar>> ELSE fs[i])
         \o JoinQuoted(fs, q, i + 1)

(***************************************************************************)
(* The state machine: a call is pending on its arguments, then done with   *)
(* its outcome.  Each specification draws the arguments of one operation.  *)
(***************************************************************************)
Pending == <<"<pending>">>

Idle == <<"<idle>">>

NoEq == string0 = <<>> /\ string1 = <<>> /\ eq_result = "idle"

NoFields == fields0 = <<>> /\ fields1 = <<>> /\ fields_result = Idle

NoLines == list0 = <<>> /\ list1 = <<>> /\ lines_result = Idle

NoQuote == plain_fields = <<>> /\ quoted = {}

InitEq ==
    /\ string0 \in Strings
    /\ string1 \in Strings
    /\ eq_result = "pending"
    /\ NoFields /\ NoLines /\ NoQuote

InitFields ==
    /\ fields0 \in FieldLists
    /\ fields1 \in FieldLists
    /\ fields_result = Pending
    /\ NoEq /\ NoLines /\ NoQuote

InitLines ==
    /\ list0 \in LineLists
    /\ list1 \in LineLists
    /\ lines_result = Pending
    /\ NoEq /\ NoFields /\ NoQuote

InitQuote ==
    /\ plain_fields \in PlainLists
    /\ quoted \in SUBSET (1..Len(plain_fields))
    /\ list0 = <<JoinQuoted(plain_fields, {}, 1)>>
    /\ list1 = <<JoinQuoted(plain_fields, quoted, 1)>>
    /\ lines_result = Pending
    /\ NoEq /\ NoFields

\* a call of CsvComparer.are_equal_to_given_precision(string0, string1)
AreEqual ==
    /\ eq_result = "pending"
    /\ eq_result' = are_equal_to_given_precision(string0, string1)
    /\ UNCHANGED <<string0, string1, fields0, fields1, fields_result,
                   list0, list1, lines_result, plain_fields, quoted>>

\* a call of comparer.compare_fields(fields0, fields1)
CompareFields ==
    /\ fields_result = Pending
    /\ fields_result' = compare_fields(fields0, fields1)
    /\ UNCHANGED <<string0, string1, eq_result, fields0, fields1,
                   list0, list1, lines_result, plain_fields, quoted>>

\* a call of comparer.compare_linelists(list0, list1)
CompareLinelists ==
    /\ lines_result = Pending
    /\ lines_result' = compare_linelists(list0, list1)
    /\ UNCHANGED <<string0, string1, eq_result, fields0, fields1, fields_result,
                   list0, list1, plain_fields, quoted>>

Init == InitEq \/ InitFields \/ InitLines \/ InitQuote

Next == AreEqual \/ CompareFields \/ CompareLinelists

Spec == Init /\ [][Next]_vars

SpecEq == InitEq /\ [][AreEqual]_vars

SpecFields == InitFields /\ [][CompareFields]_vars

SpecLines == InitLines /\ [][CompareLinelists]_vars

SpecQuote == InitQuote /\ [][CompareLinelists]_vars

(***************************************************************************)
(* What the claims speak of: the exact decimal value of a string, taken    *)
(* from its text alone (never through a float).                            *)
(***************************************************************************)
\* the string matches the numeric literal pattern
IsLiteral(s) == ReMatch(s).matched

\* float(s) succeeds and gives a number
ParsesAsNumber(s) == PyFloat(s).k \in {"fin", "zero"}

RECURSIVE StripZeros(_, _)
StripZeros(m, x) ==
    IF m # 0 /\ m % 10 = 0 THEN StripZeros(m \div 10, x + 1) ELSE [m |-> m, x |-> x]

\* the value as sign, integer m without trailing zeros and power x of ten
ExactValue(s) ==
    LET L == Lex(Strip(s))
        m == Mantissa(L)
    IN  IF m = 0 THEN [neg |-> FALSE, m |-> 0, x |-> 0]
        ELSE LET c == StripZeros(m, Exponent10(L))
             IN  [neg |-> L.neg, m |-> c.m, x |-> c.x]

SameValue(s0, s1) == ExactValue(s0) = ExactValue(s1)

EqDone == eq_result \notin {"pending", "idle"}

FieldsDone == fields_result \notin {Pending, Idle}

LinesDone == lines_result \notin {Pending, Idle}

(***************************************************************************)
(* C1: two strings that both parse as numbers and denote the same value    *)
(* compare equal, whatever their text (trailing zeros, sign of zero,       *)
(* exponent notation).                                                     *)
(***************************************************************************)
C1_SameValueEqual ==
    (EqDone /\ ParsesAsNumber(string0) /\ ParsesAsNumber(string1)
            /\ SameValue(string0, string1))
        => eq_result = "True"

\* "-0" against "0": the same value under two texts with opposite sign bits
C1_Witness ==
    /\ EqDone /\ eq_result = "True"
    /\ string0 # string1
    /\ PyFloat(string0).k = "zero" /\ PyFloat(string1).k = "zero"
    /\ PyFloat(string0).neg # PyFloat(string1).neg

(***************************************************************************)
(* C2 as stated: a one-digit literal d and a two-digit literal d.e with    *)
(* the same leading digit and a non-zero second digit (such as "3" and     *)
(* "3.5") are reported as unequal.                                         *)
(***************************************************************************)
OneAgainstTwoDigits(s0, s1) ==
    /\ Len(s0) = 1 /\ s0[1] \in DigitChars
    /\ Len(s1) = 3 /\ s1[1] = s0[1] /\ s1[2] = "." /\ s1[3] \in DigitChars \ {"0"}

C2_Original ==
    (EqDone /\ OneAgainstTwoDigits(string0, string1)) => eq_result = "False"

(***************************************************************************)
(* C2 amended: when the shared leading digit is not zero, a one-digit      *)
(* literal d and a two-digit literal d.e with a non-zero second digit are  *)
(* reported as equal ("3" against "3.5" gives True).                       *)
(***************************************************************************)
C2_Amended ==
    (EqDone /\ OneAgainstTwoDigits(string0, string1) /\ string0[1] # "0")
        => eq_result = "True"

C2_Witness ==
    /\ EqDone /\ eq_result = "True"
    /\ string0 = <<"3">> /\ string1 = <<"3", ".", "5">>

(***************************************************************************)
(* C3: two literals with the same number of mantissa digits compare equal  *)
(* if and only if they denote the same value.                              *)
(***************************************************************************)
C3_EqualDigitCount ==
    (EqDone /\ IsLiteral(string0) /\ IsLiteral(string1)
            /\ sig_figs(string0) = sig_figs(string1))
        => (eq_result = "True" <=> SameValue(string0, string1))

(***************************************************************************)
(* C4: compare_fields returns "Lengths differ (n0, n1)" when the lengths   *)
(* differ; otherwise None when every pair is equal under                   *)
(* are_equal_to_given_precision, and else "field i differs (v0, v1)" for   *)
(* the first pair, 1-based, that is not.                                   *)
(***************************************************************************)
PairEqual(f0, f1, i) == are_equal_to_given_precision(f0[i], f1[i]) = "True"

FirstUnequal(f0, f1) ==
    CHOOSE i \in 1..Len(f0) :
        ~PairEqual(f0, f1, i) /\ \A j \in 1..(i - 1) : PairEqual(f0, f1, j)

ClaimedFields(f0, f1) ==
    IF Len(f0) # Len(f1) THEN LengthsDiffer(Len(f0), Len(f1))
    ELSE IF \A i \in 1..Len(f0) : PairEqual(f0, f1, i) THEN NoneValue
    ELSE LET i == FirstUnequal(f0, f1) IN FieldDiffers(i, f0[i], f1[i])

C4_CompareFields == FieldsDone => fields_result = ClaimedFields(fields0, fields1)

(***************************************************************************)
(* C5: compare_linelists returns "Unequal numbers of lines (n0, n1)" when  *)
(* the lists differ in length; otherwise "On line k: " + msg for the first *)
(* line pair, 1-based, whose tokenized fields make compare_fields return   *)
(* msg, and None only when every pair of corresponding lines is equal.     *)
(***************************************************************************)
\* the fields of one line tokenized on its own
Tokenize(line) == CsvReader(<<line>>).rows[1]

LineMessage(l0, l1, k) == compare_fields(Tokenize(l0[k]), Tokenize(l1[k]))

ClaimedLines(l0, l1) ==
    IF Len(l0) # Len(l1) THEN UnequalLines(Len(l0), Len(l1))
    ELSE IF \A k \in 1..Len(l0) : LineMessage(l0, l1, k) = NoneValue THEN NoneValue
    ELSE LET k == CHOOSE k \in 1..Len(l0) :
                      /\ LineMessage(l0, l1, k) # NoneValue
                      /\ \A j \in 1..(k - 1) : LineMessage(l0, l1, j) = NoneValue
         IN  OnLine(k, LineMessage(l0, l1, k))

C5_CompareLinelists == LinesDone => lines_result = ClaimedLines(list0, list1)

(***************************************************************************)
(* C6: no comparison operation ends in an uncaught exception:              *)
(* are_equal_to_given_precision returns a boolean, compare_fields and      *)
(* compare_linelists return None or a message.                             *)
(***************************************************************************)
C6_NoFault ==
    /\ eq_result # "TypeError"
    /\ fields_result \notin Exceptions
    /\ lines_result \notin Exceptions

(***************************************************************************)
(* C7: when one of the two strings is no numeric literal (float() rejects  *)
(* it or the pattern does not match it), the comparison is plain string    *)
(* equality.                                                               *)
(***************************************************************************)
NotNumeric(s) == PyFloat(s).k = "ValueError" \/ ~IsLiteral(s)

C7_Fallback ==
    (EqDone /\ (NotNumeric(string0) \/ NotNumeric(string1)))
        => (eq_result = "True" <=> string0 = string1)

(***************************************************************************)
(* C8 as stated: a line made of fields without quote, separator or newline *)
(* compares equal to the same line with one or more of its fields wrapped  *)
(* in double quotes.                                                       *)
(***************************************************************************)
C8_Original == (LinesDone /\ quoted # {}) => lines_result = NoneValue

(***************************************************************************)
(* C8 amended: the same, for a non-empty line whose fields do not begin    *)
(* with a space.                                                           *)
(***************************************************************************)
NoLeadingSpace(f) == f = <<>> \/ f[1] # " "

C8_Amended ==
    (/\ LinesDone /\ quoted # {}
     /\ list0[1] # <<>>
     /\ \A i \in 1..Len(plain_fields) : NoLeadingSpace(plain_fields[i]))
        => lines_result = NoneValue

\* as in the test: a text field, then a quoted field after the separator
C8_Witness ==
    /\ LinesDone /\ lines_result = NoneValue
    /\ Len(plain_fields) = 2 /\ quoted = {2}
    /\ plain_fields[1] = <<"o", "n", "e">> /\ plain_fields[2] # <<>>

(***************************************************************************)
(* C9: when two literals compare equal, they have the same sign (or are    *)
(* both zero) and differ by less than one unit in the last written         *)
(* mantissa digit of the literal with fewer mantissa digits.               *)
(***************************************************************************)
\* the power of ten of the last written mantissa digit
LastDigitPower(s) == Exponent10(Lex(Strip(s)))

SignedMantissa(s) ==
    LET L == Lex(Strip(s)) IN IF L.neg THEN -Mantissa(L) ELSE Mantissa(L)

WithinOneUnit(s0, s1) ==
    LET x0 == LastDigitPower(s0)
        x1 == LastDigitPower(s1)
        xs == Min(x0, x1)
        n0 == SignedMantissa(s0) * Pow10(x0 - xs)
        n1 == SignedMantissa(s1) * Pow10(x1 - xs)
        xu == IF sig_figs(s0) < sig_figs(s1) THEN x0
              ELSE IF sig_figs(s1) < sig_figs(s0) THEN x1
              ELSE Max(x0, x1)
    IN  /\ n0 * n1 > 0
        /\ Abs(n0 - n1) < Pow10(xu - xs)

BothZero(s0, s1) == SignedMantissa(s0) = 0 /\ SignedMantissa(s1) = 0

C9_ToleranceSound ==
    (EqDone /\ eq_result = "True" /\ IsLiteral(string0) /\ IsLiteral(string1))
        => (BothZero(string0, string1) \/ WithinOneUnit(string0, string1))

(***************************************************************************)
(* C10: are_equal_to_given_precision is symmetric in its two arguments.    *)
(***************************************************************************)
C10_Symmetric ==
    EqDone => eq_result = are_equal_to_given_precision(string1, string0)

====
